---- MODULE Spec2Model ----
(***************************************************************************)
(* A model of the crossword grid of crosswords-rs (src/src/cw/mod.rs):     *)
(* the letters, the right/down border bitmaps and the set of placed words, *)
(* mutated by try_word (the specification's try_place) and pop_word (the   *)
(* specification's remove_word), and read by word_at.                      *)
(***************************************************************************)
EXTENDS Integers, Sequences, FiniteSets, TLC

\* ------------------------------------------------------------------ bounds
\* The size of the grid handed to Crosswords::new.
Width == 4
Height == 2

\* ------------------------------------------------------------- vocabulary
BLOCK == "#"

Dirs == {"Right", "Down"}

\* The words the callers try to place: the empty word, a one-letter word,
\* words that cross, and two words that combine to a longer one.
WordInputs ==
    { <<>>, <<"A">>, <<"A", "B">>, <<"B", "A">>,
      <<"A", "B", "B", "A">> }

GridPoints == { <<x, y>> : x \in 0..(Width - 1), y \in 0..(Height - 1) }

\* Points just outside the grid, one beyond each edge.
OutsidePoints ==
    { <<0 - 1, 0>>, <<0, 0 - 1>>, <<Width, Height - 1>>, <<Width - 1, Height>> }

Points == GridPoints \cup OutsidePoints

\* Option::None of get_char, and of Point::coord (no index of an array).
None == "None"

NoCoord == 0 - 1

\* ------------------------------------------------------- Point, Dir, Range
other(dir) == IF dir = "Right" THEN "Down" ELSE "Right"

dir_point(dir) == IF dir = "Right" THEN <<1, 0>> ELSE <<0, 1>>

padd(p, q) == <<p[1] + q[1], p[2] + q[2]>>

psub(p, q) == <<p[1] - q[1], p[2] - q[2]>>

pmul(p, k) == <<p[1] * k, p[2] * k>>

\* Point::coord(w, h): the index of the point in a w * h array, if inside.
coord(point, w, h) ==
    IF point[1] >= 0 /\ point[2] >= 0 /\ point[1] < w /\ point[2] < h
    THEN point[1] + point[2] * w
    ELSE NoCoord

\* PointIter::new(point, dir, len): point, point + dp, ..., len points.
PointIter(point, dir, len) ==
    [k \in 1..len |-> padd(point, pmul(dir_point(dir), k - 1))]

\* Range::cells_with(point, dir, f): the longest range from point all of whose
\* points satisfy f; f is given as the set of points that satisfy it.
RECURSIVE cells_len(_, _, _)
cells_len(p, dp, f) ==
    IF p \in f THEN 1 + cells_len(padd(p, dp), dp, f) ELSE 0

cells_with(point, dir, f) ==
    [point |-> point, dir |-> dir, len |-> cells_len(point, dir_point(dir), f)]

\* Every point a range walk can visit.
Universe == { <<x, y>> : x \in (0 - 2)..(Width + 1), y \in (0 - 2)..(Height + 1) }

\* -------------------------------------------------------------- Crosswords
new(width, height) ==
    [ chars        |-> [i \in 0..(width * height - 1) |-> BLOCK],
      right_border |-> [i \in 0..((width - 1) * height - 1) |-> TRUE],
      down_border  |-> [i \in 0..(width * (height - 1) - 1) |-> TRUE],
      words        |-> {},
      panic        |-> FALSE ]

get_border(g, point, dir) ==
    IF dir = "Right"
    THEN LET p == coord(point, Width - 1, Height)
         IN IF p = NoCoord THEN TRUE ELSE g.right_border[p]
    ELSE LET p == coord(point, Width, Height - 1)
         IN IF p = NoCoord THEN TRUE ELSE g.down_border[p]

both_borders(g, point, dir) ==
    get_border(g, point, dir) /\ get_border(g, psub(point, dir_point(dir)), dir)

\* set_border: the grid after the call; unreachable!() is a panic.
set_border(g, point, dir, value) ==
    IF dir = "Right"
    THEN LET p == coord(point, Width - 1, Height)
         IN IF p = NoCoord
            THEN (IF value THEN g ELSE [g EXCEPT !.panic = TRUE])
            ELSE [g EXCEPT !.right_border[p] = value]
    ELSE LET p == coord(point, Width, Height - 1)
         IN IF p = NoCoord
            THEN (IF value THEN g ELSE [g EXCEPT !.panic = TRUE])
            ELSE [g EXCEPT !.down_border[p] = value]

\* is_char_allowed without the comparison with the letter the cell holds.
is_char_allowed_any(g, point, c) ==
    coord(point, Width, Height) # NoCoord

is_char_allowed(g, point, c) ==
    LET p == coord(point, Width, Height)
    IN IF p = NoCoord THEN FALSE
       ELSE LET existing == g.chars[p]
            IN c = existing \/ existing = BLOCK

get_char(g, point) ==
    LET p == coord(point, Width, Height)
    IN IF p = NoCoord THEN None ELSE g.chars[p]

\* get_word_range_at that does not ask for a border before the point: from a
\* middle cell it gives the rest of the word.
get_word_range_at_rest(g, point, dir) ==
    LET dp == dir_point(dir)
    IN cells_with(point, dir,
           { p \in Universe : p = point \/ ~get_border(g, psub(p, dp), dir) })

get_word_range_at(g, point, dir) ==
    LET dp == dir_point(dir)
    IN cells_with(point, dir,
           { p \in Universe : (p = point) = get_border(g, psub(p, dp), dir) })

\* RangeIter: the characters of the points of the range, up to the first point
\* outside the grid.
RECURSIVE range_chars(_, _, _)
range_chars(g, range, k) ==
    IF k >= range.len THEN <<>>
    ELSE LET c == get_char(g, padd(range.point, pmul(dir_point(range.dir), k)))
         IN IF c = None THEN <<>>
            ELSE <<c>> \o range_chars(g, range, k + 1)

chars(g, range) == range_chars(g, range, 0)

chars_at(g, point, dir) == chars(g, get_word_range_at(g, point, dir))

\* word_at that reads the word from the first cell of the run through the
\* point, as get_word_range_containing finds it.
RECURSIVE word_start(_, _, _)
word_start(g, point, dir) ==
    IF get_border(g, psub(point, dir_point(dir)), dir) THEN point
    ELSE word_start(g, psub(point, dir_point(dir)), dir)

word_at_containing(g, point, dir) == chars_at(g, word_start(g, point, dir), dir)

word_at(g, point, dir) == chars_at(g, point, dir)

\* put_char: the grid after the call; unwrap() of None is a panic.
put_char(g, point, c) ==
    LET p == coord(point, Width, Height)
    IN IF p = NoCoord THEN [g EXCEPT !.panic = TRUE]
       ELSE [g EXCEPT !.chars[p] = c]

\* word_iter: the letters of the word zipped with the points of its run.
word_iter(word, point, dir) ==
    LET pts == PointIter(point, dir, Len(word))
    IN [k \in 1..Len(word) |-> <<word[k], pts[k]>>]

\* is_word_allowed without the test for a duplicate.
is_word_allowed_dup(g, point, dir, word) ==
    LET dp  == dir_point(dir)
        len == Len(word)
        it  == word_iter(word, point, dir)
    IN /\ len > 1
       /\ get_border(g, psub(point, dp), dir)
       /\ get_border(g, padd(point, pmul(dp, len - 1)), dir)
       /\ \A k \in 1..len : is_char_allowed(g, it[k][2], it[k][1])

is_word_allowed(g, point, dir, word) ==
    LET dp  == dir_point(dir)
        len == Len(word)
        it  == word_iter(word, point, dir)
    IN /\ word \notin g.words
       /\ len > 1
       /\ get_border(g, psub(point, dp), dir)
       /\ get_border(g, padd(point, pmul(dp, len - 1)), dir)
       /\ \A k \in 1..len : is_char_allowed(g, it[k][2], it[k][1])

\* The first loop of push_word deregistering only the word that starts at the
\* first cell of the run.
RECURSIVE push_chars_first(_, _, _, _)
push_chars_first(g, it, dir, k) ==
    IF k > Len(it) THEN g
    ELSE LET existing == word_at(g, it[k][2], dir)
             g1 == IF k = 1 THEN [g EXCEPT !.words = @ \ {existing}] ELSE g
         IN push_chars_first(put_char(g1, it[k][2], it[k][1]), it, dir, k + 1)

\* The first loop of push_word, from the k-th letter on: deregister the word
\* that starts at the cell, then write the letter.
RECURSIVE push_chars(_, _, _, _)
push_chars(g, it, dir, k) ==
    IF k > Len(it) THEN g
    ELSE LET existing == word_at(g, it[k][2], dir)
             g1 == [g EXCEPT !.words = @ \ {existing}]
         IN push_chars(put_char(g1, it[k][2], it[k][1]), it, dir, k + 1)

\* The second loop of push_word stopping one border early.
RECURSIVE push_borders_short(_, _, _, _)
push_borders_short(g, pts, dir, k) ==
    IF k >= Len(pts) THEN g
    ELSE push_borders_short(set_border(g, pts[k], dir, FALSE), pts, dir, k + 1)

\* The second loop of push_word: clear the borders inside the run.
RECURSIVE push_borders(_, _, _, _)
push_borders(g, pts, dir, k) ==
    IF k > Len(pts) THEN g
    ELSE push_borders(set_border(g, pts[k], dir, FALSE), pts, dir, k + 1)

\* push_word clearing a border after every cell of the run, the last too.
push_word_borders_all(g, point, dir, word) ==
    LET g1 == push_chars(g, word_iter(word, point, dir), dir, 1)
        g2 == push_borders(g1, PointIter(point, dir, Len(word)), dir, 1)
    IN [g2 EXCEPT !.words = @ \cup {word}]

push_word(g, point, dir, word) ==
    LET g1 == push_chars(g, word_iter(word, point, dir), dir, 1)
        g2 == push_borders(g1, PointIter(point, dir, Len(word) - 1), dir, 1)
    IN [g2 EXCEPT !.words = @ \cup {word}]

\* The loop of pop_word that never blanks a cell.
RECURSIVE pop_cells_keep(_, _, _, _)
pop_cells_keep(g, pts, dir, k) ==
    IF k > Len(pts) THEN g
    ELSE pop_cells_keep(set_border(g, pts[k], dir, TRUE), pts, dir, k + 1)

\* The loop of pop_word that blanks every cell, crossed by a word or not.
RECURSIVE pop_cells_blank(_, _, _, _)
pop_cells_blank(g, pts, dir, k) ==
    IF k > Len(pts) THEN g
    ELSE pop_cells_blank(put_char(set_border(g, pts[k], dir, TRUE), pts[k], BLOCK),
                         pts, dir, k + 1)

\* The loop of pop_word: restore the border after each cell and blank the
\* cell if it is isolated in the other direction too.
RECURSIVE pop_cells(_, _, _, _)
pop_cells(g, pts, dir, k) ==
    IF k > Len(pts) THEN g
    ELSE LET g1 == set_border(g, pts[k], dir, TRUE)
             g2 == IF both_borders(g1, pts[k], other(dir))
                   THEN put_char(g1, pts[k], BLOCK)
                   ELSE g1
         IN pop_cells(g2, pts, dir, k + 1)

\* pop_word that leaves the word in words.
pop_word_keep_word(g, point, dir) ==
    LET word == word_at(g, point, dir)
    IN IF Len(word) <= 1
       THEN [g |-> g, ret |-> <<>>]
       ELSE [g |-> pop_cells(g, PointIter(point, dir, Len(word)), dir, 1),
             ret |-> word]

\* pop_word without the early return for a word of one cell or none.
pop_word_no_guard(g, point, dir) ==
    LET word == word_at(g, point, dir)
        g1 == pop_cells(g, PointIter(point, dir, Len(word)), dir, 1)
    IN [g |-> [g1 EXCEPT !.words = @ \ {word}], ret |-> word]

\* pop_word: the grid after the call and the word returned.
pop_word(g, point, dir) ==
    LET word == word_at(g, point, dir)
    IN IF Len(word) <= 1
       THEN [g |-> g, ret |-> <<>>]
       ELSE LET g1 == pop_cells(g, PointIter(point, dir, Len(word)), dir, 1)
            IN [g |-> [g1 EXCEPT !.words = @ \ {word}], ret |-> word]

\* try_word that writes the first letter before it checks the word.
try_word_dirty(g, point, dir, word) ==
    IF is_word_allowed(g, point, dir, word)
    THEN [g |-> push_word(g, point, dir, word), ret |-> TRUE]
    ELSE IF Len(word) > 0 /\ is_char_allowed(g, point, word[1])
         THEN [g |-> put_char(g, point, word[1]), ret |-> FALSE]
         ELSE [g |-> g, ret |-> FALSE]

\* try_word: the grid after the call and the value returned.
try_word(g, point, dir, word) ==
    IF is_word_allowed(g, point, dir, word)
    THEN [g |-> push_word(g, point, dir, word), ret |-> TRUE]
    ELSE [g |-> g, ret |-> FALSE]

\* Crosswords::contains(point)
contains_point(point) ==
    point[1] >= 0 /\ point[2] >= 0 /\ point[1] < Width /\ point[2] < Height

\* is_range_free that does not look at the border before the range.
is_range_free_open(g, range) ==
    LET dp == dir_point(range.dir)
    IN /\ contains_point(range.point)
       /\ contains_point(padd(range.point, pmul(dp, range.len - 1)))
       /\ \A k \in 1..range.len :
             get_border(g, PointIter(range.point, range.dir, range.len)[k], range.dir)

is_range_free(g, range) ==
    LET dp == dir_point(range.dir)
    IN /\ contains_point(range.point)
       /\ contains_point(padd(range.point, pmul(dp, range.len - 1)))
       /\ get_border(g, psub(range.point, dp), range.dir)
       /\ \A k \in 1..range.len :
             get_border(g, PointIter(range.point, range.dir, range.len)[k], range.dir)

\* get_free_range_at that starts a range after any border.
get_free_range_at_any(g, point, dir) ==
    LET dp == dir_point(dir)
    IN IF ~contains_point(psub(point, dp)) \/ get_border(g, psub(point, dp), dir)
       THEN cells_with(point, dir,
                { p \in Universe : contains_point(p) /\ get_border(g, p, dir) })
       ELSE [point |-> point, dir |-> dir, len |-> 0]

get_free_range_at(g, point, dir) ==
    LET dp == dir_point(dir)
    IN IF \/ ~contains_point(psub(point, dp))
          \/ /\ get_border(g, psub(point, dp), dir)
             /\ ~get_border(g, psub(point, pmul(dp, 2)), dir)
       THEN cells_with(point, dir,
                { p \in Universe : contains_point(p) /\ get_border(g, p, dir) })
       ELSE [point |-> point, dir |-> dir, len |-> 0]

\* The loop of get_free_range_containing: the point it walks back to.
RECURSIVE free_range_start(_, _, _)
free_range_start(g, point, dir) ==
    LET dp == dir_point(dir)
    IN IF contains_point(psub(point, dp)) /\ get_border(g, psub(point, pmul(dp, 2)), dir)
       THEN free_range_start(g, psub(point, dp), dir)
       ELSE point

get_free_range_containing(g, point, dir) ==
    get_free_range_at(g, free_range_start(g, point, dir), dir)

is_empty(g) == g.words = {}

is_full(g) == \A p \in 0..(Width * Height - 1) : g.chars[p] # BLOCK

\* count_borders that forgets the down borders.
count_borders_right(g) ==
    Cardinality({ i \in DOMAIN g.right_border : g.right_border[i] })

count_borders(g) ==
    Cardinality({ i \in DOMAIN g.right_border : g.right_border[i] })
        + Cardinality({ i \in DOMAIN g.down_border : g.down_border[i] })

max_border_count == 2 * Width * Height - Width - Height

\* has_hint_at that looks for words to the right only.
has_hint_at_right(g, point) ==
    ~get_border(g, point, "Right") /\ get_border(g, psub(point, <<1, 0>>), "Right")

has_hint_at_dir(g, point, dir) ==
    ~get_border(g, point, dir) /\ get_border(g, psub(point, dir_point(dir)), dir)

has_hint_at(g, point) ==
    has_hint_at_dir(g, point, "Right") \/ has_hint_at_dir(g, point, "Down")

\* ---------------------------------------------------------------- boundary
is_letter(g, point) == get_char(g, point) \notin {None, BLOCK}

\* The four orthogonal neighbours of a point.
Neighbours(point) ==
    { padd(point, <<1, 0>>), padd(point, <<0 - 1, 0>>),
      padd(point, <<0, 1>>), padd(point, <<0, 0 - 1>>) }

is_boundary_point(g, point) ==
    /\ get_char(g, point) = BLOCK
    /\ \/ is_letter(g, padd(point, <<1, 0>>))
       \/ is_letter(g, padd(point, <<0 - 1, 0>>))
       \/ is_letter(g, padd(point, <<0, 1>>))
       \/ is_letter(g, padd(point, <<0, 0 - 1>>))

\* The empty cells connected to the cells of ps through empty cells.
RECURSIVE Cluster(_, _)
Cluster(g, ps) ==
    LET more == { q \in GridPoints :
                    /\ get_char(g, q) = BLOCK
                    /\ \E p \in ps : q \in Neighbours(p) }
    IN IF more \subseteq ps THEN ps ELSE Cluster(g, ps \cup more)

\* The pairs (empty cell, neighbour that is a letter or outside the grid)
\* around the cluster of empty cells of the point; none if the cell at the
\* point is not empty.
get_boundary_iter_for(g, point) ==
    IF get_char(g, point) # BLOCK THEN {}
    ELSE { pp \in Cluster(g, {point}) \X (GridPoints \cup Universe) :
             /\ pp[2] \in Neighbours(pp[1])
             /\ get_char(g, pp[2]) # BLOCK }

\* The points in the order of a scan by rows.
scan_points_rows ==
    [k \in 1..(Width * Height) |-> <<(k - 1) % Width, (k - 1) \div Width>>]

\* The points in the order of the scan: for x, for y.
scan_points ==
    [k \in 1..(Width * Height) |-> <<(k - 1) \div Height, (k - 1) % Height>>]

\* The loops of get_smallest_boundary from the k-th point of the scan on.
RECURSIVE scan_boundaries(_, _, _, _)
scan_boundaries(g, k, points, smallest) ==
    IF k > Len(scan_points) THEN smallest
    ELSE LET point == scan_points[k]
         IN IF point \notin points /\ is_boundary_point(g, point)
            THEN LET boundary == get_boundary_iter_for(g, point)
                 IN IF ~(Cardinality(boundary) > 1) THEN boundary
                    ELSE scan_boundaries(g, k + 1,
                            points \cup { pp[1] : pp \in boundary },
                            IF points = {} \/ Cardinality(boundary) < Cardinality(smallest)
                            THEN boundary ELSE smallest)
            ELSE scan_boundaries(g, k + 1, points, smallest)

get_smallest_boundary(g) == scan_boundaries(g, 1, {}, {})

\* --------------------------------------------------------------- PrintIter
\* PrintItem: kind is the variant; b, c and n are the bool, the char and the
\* number of the variants that carry one.
PrintItem(kind, b, c, n) == [kind |-> kind, b |-> b, c |-> c, n |-> n]

VertBorder(b) == PrintItem("VertBorder", b, "", 0)

HorizBorder(b) == PrintItem("HorizBorder", b, "", 0)

Cross(b) == PrintItem("Cross", b, "", 0)

Block == PrintItem("Block", FALSE, "", 0)

Character(c) == PrintItem("Character", FALSE, c, 0)

Hint(n) == PrintItem("Hint", FALSE, "", n)

LineBreak == PrintItem("LineBreak", FALSE, "", 0)

\* Option::None of PrintIter::next.
NoItem == PrintItem("None", FALSE, "", 0)

PrintIter_new(pi_type) ==
    [ point         |-> <<0 - 1, 0 - 1>>,
      between_lines |-> TRUE,
      between_chars |-> TRUE,
      pi_type       |-> pi_type,
      hint_count    |-> 0 ]

\* The number of true values among four.
CountTrue(b1, b2, b3, b4) ==
    (IF b1 THEN 1 ELSE 0) + (IF b2 THEN 1 ELSE 0)
        + (IF b3 THEN 1 ELSE 0) + (IF b4 THEN 1 ELSE 0)

\* line_break that moves to the next line of cells every time.
line_break_skip(it) ==
    [it EXCEPT !.point = <<0 - 1, it.point[2] + 1>>,
               !.between_chars = TRUE,
               !.between_lines = ~it.between_lines]

\* The iterator after the end of a line of items.
line_break(it) ==
    [it EXCEPT !.point = <<0 - 1,
                           IF it.between_lines THEN it.point[2] + 1
                           ELSE it.point[2]>>,
               !.between_chars = TRUE,
               !.between_lines = ~it.between_lines]

\* PrintIter::next: the iterator after the call and the item returned.
PrintIter_next(g, it) ==
    IF it.point[2] >= Height THEN [it |-> it, item |-> NoItem]
    ELSE IF it.point[1] >= Width
    THEN [it |-> line_break(it), item |-> LineBreak]
    ELSE IF it.between_chars
    THEN [it |-> [it EXCEPT !.point = <<it.point[1] + 1, it.point[2]>>,
                            !.between_chars = FALSE],
          item |-> IF it.between_lines
                   THEN Cross(CountTrue(
                            get_border(g, it.point, "Down"),
                            get_border(g, it.point, "Right"),
                            get_border(g, padd(it.point, <<1, 0>>), "Down"),
                            get_border(g, padd(it.point, <<0, 1>>), "Right")) > 1)
                   ELSE VertBorder(get_border(g, it.point, "Right"))]
    ELSE IF it.between_lines
    THEN [it |-> [it EXCEPT !.between_chars = TRUE],
          item |-> HorizBorder(get_border(g, it.point, "Down"))]
    ELSE LET c == get_char(g, it.point)
         IN IF c = BLOCK
            THEN [it |-> [it EXCEPT !.between_chars = TRUE], item |-> Block]
            ELSE IF it.pi_type = "Solution"
            THEN [it |-> [it EXCEPT !.between_chars = TRUE], item |-> Character(c)]
            ELSE IF has_hint_at(g, it.point)
            THEN [it |-> [it EXCEPT !.between_chars = TRUE,
                                    !.hint_count = it.hint_count + 1],
                  item |-> Hint(it.hint_count + 1)]
            ELSE [it |-> [it EXCEPT !.between_chars = TRUE],
                  item |-> Character(" ")]

\* -------------------------------------------------------------------- Dict
\* The longest pattern asked of the Dict.
MaxPattern == 6

\* The number of calls of next() made after the one that returned None.
MaxCallsAfterNone == 1

max_n == 3

\* The words a Dict is built from: normalized, two letters or more.
DictPool ==
    { <<"A", "B">>,
      <<"A", "B", "B", "A", "B", "A">>,
      <<"A", "B", "A", "A", "B", "A">>,
      <<"B", "B", "B", "A", "B", "A">> }

\* The patterns asked of the Dict: letters and BLOCK as the wildcard.
Patterns == UNION { [1..n -> {"A", "B", BLOCK}] : n \in 0..MaxPattern }

\* The letter-only words asked of contains.
LetterWords == UNION { [1..n -> {"A", "B"}] : n \in 0..MaxPattern }

\* Option<&CVec>
Some(word) == [some |-> TRUE, v |-> word]

NoWord == [some |-> FALSE, v |-> <<>>]

Min(a, b) == IF a < b THEN a ELSE b

\* WordConstraint::Length(len)
Length(len) == [kind |-> "Length", gram |-> <<>>, offset |-> 0, total |-> len]

\* WordConstraint::with_ngram(gram, offset, total)
with_ngram(gram, offset, total) ==
    [kind |-> "Ngram", gram |-> gram, offset |-> offset, total |-> total]

\* WordConstraint::all(word, max_n): the constraints a word is indexed under.
WordConstraint_all(word, maxn) ==
    {Length(Len(word))}
        \cup { with_ngram(SubSeq(word, pn[1] + 1, pn[1] + pn[2]), pn[1], Len(word)) :
                 pn \in { qm \in (0..Len(word)) \X (1..Min(maxn, Len(word))) :
                            qm[1] + qm[2] <= Len(word) } }

\* matches that compares the lengths only.
matches_len_only(word, pattern) ==
    Len(word) <= Len(pattern)

matches(word, pattern) ==
    /\ Len(word) <= Len(pattern)
    /\ \A k \in 1..Min(Len(word), Len(pattern)) :
          word[k] = pattern[k] \/ pattern[k] = BLOCK

\* push_index that puts the index at the front of the list.
push_index_front(lists, wocos, i) ==
    [wc \in DOMAIN lists \cup wocos |->
        IF wc \notin wocos THEN lists[wc]
        ELSE IF wc \notin DOMAIN lists THEN <<i>>
        ELSE <<i>> \o lists[wc]]

\* The lists after index i has been pushed to the list of each of wocos.
push_index(lists, wocos, i) ==
    [wc \in DOMAIN lists \cup wocos |->
        IF wc \notin wocos THEN lists[wc]
        ELSE IF wc \notin DOMAIN lists THEN <<i>>
        ELSE Append(lists[wc], i)]

\* The loop of Dict::new over the words from index i on.
RECURSIVE index_words(_, _, _)
index_words(ws, i, lists) ==
    IF i >= Len(ws) THEN lists
    ELSE index_words(ws, i + 1,
                     push_index(lists, WordConstraint_all(ws[i + 1], max_n), i))

\* Dict::new, ws being all_words after the shuffle.
Dict_new(ws) == [built |-> TRUE, words |-> ws, lists |-> index_words(ws, 0, <<>>)]

get_list(d, wc) == IF wc \in DOMAIN d.lists THEN d.lists[wc] ELSE <<>>

\* run_candidate that is one off in the offset of the n-gram.
run_candidate_off(d, pattern, pos, n, dp) ==
    get_list(d, with_ngram(SubSeq(pattern, pos + dp + 1, pos + dp + n),
                           pos + dp + 1, Len(pattern)))

\* The list consulted for the n-gram at dp of the run that starts at pos.
run_candidate(d, pattern, pos, n, dp) ==
    get_list(d, with_ngram(SubSeq(pattern, pos + dp + 1, pos + dp + n),
                           pos + dp, Len(pattern)))

\* The inner loop of get_matching_word_list from dp on, over the run of
\* sublen letters that starts at pos; an empty result is its early return.
RECURSIVE scan_run(_, _, _, _, _, _, _)
scan_run(d, pattern, pos, sublen, n, dp, list) ==
    IF dp >= sublen - n THEN list
    ELSE LET new_list == run_candidate(d, pattern, pos, n, dp)
             list2 == IF Len(list) > Len(new_list) THEN new_list ELSE list
         IN IF Len(list2) = 0 THEN list2
            ELSE scan_run(d, pattern, pos, sublen, n, dp + 1, list2)

\* The positions of the BLOCKs of the pattern, from 0, and then its length.
run_ends(pattern) ==
    SelectSeq([k \in 1..(Len(pattern) + 1) |-> k - 1],
              LAMBDA i : i = Len(pattern) \/ pattern[i + 1] = BLOCK)

\* The outer loop of get_matching_word_list from the k-th run end on.
RECURSIVE scan_pattern(_, _, _, _, _)
scan_pattern(d, pattern, k, pos, list) ==
    IF k > Len(run_ends(pattern)) THEN list
    ELSE LET i == run_ends(pattern)[k]
             list2 == IF i > pos
                      THEN scan_run(d, pattern, pos, i - pos,
                                    Min(max_n, i - pos), 1, list)
                      ELSE list
         IN IF Len(list2) = 0 THEN list2
            ELSE scan_pattern(d, pattern, k + 1, i + 1, list2)

get_matching_word_list(d, pattern) ==
    LET list == get_list(d, Length(Len(pattern)))
    IN IF Len(list) = 0 THEN list
       ELSE scan_pattern(d, pattern, 1, 0, list)

\* PatternIter built by Dict::matching_words
matching_words(d, pattern) ==
    [pattern |-> pattern, list |-> get_matching_word_list(d, pattern), index |-> 0]

\* PatternIter::get_word
get_word(d, it) ==
    IF it.index >= Len(it.list) THEN NoWord
    ELSE LET i == it.list[it.index + 1]
         IN IF i >= Len(d.words) THEN NoWord ELSE Some(d.words[i + 1])

\* PatternIter::next that leaves the index where it is when it returns a word.
RECURSIVE PatternIter_next_stay(_, _)
PatternIter_next_stay(d, it) ==
    LET word == get_word(d, it)
        it2 == [it EXCEPT !.index = it.index + 1]
    IN IF ~word.some THEN [it |-> it2, item |-> word]
       ELSE IF matches(word.v, it.pattern) THEN [it |-> it, item |-> word]
       ELSE PatternIter_next_stay(d, it2)

\* PatternIter::next: the iterator after the call and the word returned.
RECURSIVE PatternIter_next(_, _)
PatternIter_next(d, it) ==
    LET word == get_word(d, it)
        it2 == [it EXCEPT !.index = it.index + 1]
    IN IF word.some => matches(word.v, it.pattern)
       THEN [it |-> it2, item |-> word]
       ELSE PatternIter_next(d, it2)

\* The words that the calls of next() return up to the first None.
RECURSIVE collect(_, _)
collect(d, it) ==
    LET r == PatternIter_next(d, it)
    IN IF r.item.some THEN <<r.item.v>> \o collect(d, r.it) ELSE <<>>

\* Dict::contains
contains(d, word) == PatternIter_next(d, matching_words(d, word)).item.some

\* ------------------------------------------------------------------- state
VARIABLES
    chars_,        \* Crosswords.chars
    right_border,  \* Crosswords.right_border
    down_border,   \* Crosswords.down_border
    words,         \* Crosswords.words
    panic,         \* a put_char or set_border call has aborted
    last,          \* the call that has just returned: its name, arguments
                   \* and return value (gone: the word tried had been in
                   \* words and had left); op = "none" when the caller is idle
    before,        \* the grid that call started from
    left,          \* the words that were in Crosswords.words and are not now
    undone,        \* set by a pop_word that directly follows a successful
                   \* try_word at the same point and direction: the grid
                   \* before that try_word and the word it placed
    printer,       \* a PrintIter over the grid and the items it has yielded
    dict,          \* the Dict
    iter           \* a PatternIter over the Dict and the words it has yielded

vars ==
    <<chars_, right_border, down_border, words, panic, last, before, left, undone,
      printer, dict, iter>>

\* The grid as one value.
Grid ==
    [ chars        |-> chars_,
      right_border |-> right_border,
      down_border  |-> down_border,
      words        |-> words,
      panic        |-> panic ]

SetGrid(g) ==
    /\ chars_' = g.chars
    /\ right_border' = g.right_border
    /\ down_border' = g.down_border
    /\ words' = g.words
    /\ panic' = g.panic
    /\ left' = (left \cup words) \ g.words

NoCall ==
    [op |-> "none", point |-> <<0, 0>>, dir |-> "Right", word |-> <<>>,
     ok |-> FALSE, out |-> <<>>, gone |-> FALSE]

NotUndone == [some |-> FALSE, g |-> new(Width, Height), word |-> <<>>]

\* No PrintIter lives.
NoPrinter ==
    [active |-> FALSE, it |-> PrintIter_new("Solution"), out |-> <<>>,
     ended |-> FALSE]

\* No Dict is built yet.
NoDict == [built |-> FALSE, words |-> <<>>, lists |-> <<>>]

\* No PatternIter lives.
NoIter ==
    [op |-> "none", it |-> matching_words(NoDict, <<>>), out |-> <<>>,
     ended |-> FALSE, ret |-> FALSE]

Init ==
    /\ chars_ = new(Width, Height).chars
    /\ right_border = new(Width, Height).right_border
    /\ down_border = new(Width, Height).down_border
    /\ words = new(Width, Height).words
    /\ panic = new(Width, Height).panic
    /\ last = NoCall
    /\ before = new(Width, Height)
    /\ left = {}
    /\ undone = NotUndone
    /\ printer = NoPrinter
    /\ dict = NoDict
    /\ iter = NoIter

\* cw.try_word(point, dir, &word)
TryWord ==
    /\ last.op = "none"
    /\ \E point \in Points, dir \in Dirs, word \in WordInputs :
        LET r == try_word(Grid, point, dir, word)
        IN /\ SetGrid(r.g)
           /\ last' = [op |-> "try_word", point |-> point, dir |-> dir,
                       word |-> word, ok |-> r.ret, out |-> <<>>,
                       gone |-> word \in left]
           /\ before' = Grid
           /\ undone' = NotUndone
           /\ UNCHANGED <<printer, dict, iter>>

\* cw.pop_word(point, dir)
PopWord ==
    /\ last.op = "none"
    /\ \E point \in Points, dir \in Dirs :
        LET r == pop_word(Grid, point, dir)
        IN /\ SetGrid(r.g)
           /\ last' = [op |-> "pop_word", point |-> point, dir |-> dir,
                       word |-> <<>>, ok |-> FALSE, out |-> r.ret, gone |-> FALSE]
           /\ before' = Grid
           /\ undone' = NotUndone
           /\ UNCHANGED <<printer, dict, iter>>

\* The caller backtracks: cw.pop_word(point, dir) right after a successful
\* cw.try_word(point, dir, &word).
Backtrack ==
    /\ last.op = "try_word"
    /\ last.ok
    /\ LET r == pop_word(Grid, last.point, last.dir)
       IN /\ SetGrid(r.g)
          /\ last' = [op |-> "pop_word", point |-> last.point, dir |-> last.dir,
                      word |-> <<>>, ok |-> FALSE, out |-> r.ret, gone |-> FALSE]
          /\ before' = Grid
          /\ undone' = [some |-> TRUE, g |-> before, word |-> last.word]
          /\ UNCHANGED <<printer, dict, iter>>

\* cw.word_at(point, dir)
WordAt ==
    /\ last.op = "none"
    /\ \E point \in Points, dir \in Dirs :
        /\ last' = [op |-> "word_at", point |-> point, dir |-> dir,
                    word |-> <<>>, ok |-> FALSE, out |-> word_at(Grid, point, dir),
                    gone |-> FALSE]
        /\ before' = Grid
        /\ undone' = NotUndone
        /\ UNCHANGED <<chars_, right_border, down_border, words, panic, left>>
        /\ UNCHANGED <<printer, dict, iter>>

\* cw.get_free_range_at(point, dir)
GetFreeRangeAt ==
    /\ last.op = "none"
    /\ \E point \in Points, dir \in Dirs :
        /\ last' = [op |-> "get_free_range_at", point |-> point, dir |-> dir,
                    word |-> <<>>, ok |-> FALSE,
                    out |-> get_free_range_at(Grid, point, dir), gone |-> FALSE]
        /\ before' = Grid
        /\ undone' = NotUndone
        /\ UNCHANGED <<chars_, right_border, down_border, words, panic, left>>
        /\ UNCHANGED <<printer, dict, iter>>

GetSmallestBoundary ==
    /\ last.op = "none"
    /\ last' = [NoCall EXCEPT !.op = "get_smallest_boundary",
                              !.out = get_smallest_boundary(Grid)]
    /\ before' = Grid
    /\ undone' = NotUndone
    /\ UNCHANGED <<chars_, right_border, down_border, words, panic, left>>
    /\ UNCHANGED <<printer, dict, iter>>

\* The caller has looked at the result of the call and goes on.
Resume ==
    /\ last.op # "none"
    /\ last' = NoCall
    /\ before' = Grid
    /\ undone' = NotUndone
    /\ UNCHANGED <<chars_, right_border, down_border, words, panic, left>>
    /\ UNCHANGED <<printer, dict, iter>>

Next ==
    \/ TryWord
    \/ PopWord
    \/ Backtrack
    \/ WordAt
    \/ GetFreeRangeAt
    \/ GetSmallestBoundary
    \/ Resume

Spec == Init /\ [][Next]_vars

\* The grid alone, under any sequence of try_word and pop_word calls whose
\* arguments and results are not recorded.
\* (A PrintIter borrows the grid: no call changes the grid while it lives.)
Place ==
    /\ ~printer.active
    /\ \E point \in Points, dir \in Dirs, word \in WordInputs :
        /\ SetGrid(try_word(Grid, point, dir, word).g)
        /\ UNCHANGED <<last, before, undone, printer, dict, iter>>

Remove ==
    /\ ~printer.active
    /\ \E point \in Points, dir \in Dirs :
        /\ SetGrid(pop_word(Grid, point, dir).g)
        /\ UNCHANGED <<last, before, undone, printer, dict, iter>>

NextGrid == Place \/ Remove

SpecGrid == Init /\ [][NextGrid]_vars

\* PrintIter::new_solution(&cw) or PrintIter::new_puzzle(&cw)
PrintStart ==
    /\ ~printer.active
    /\ \E pi_type \in {"Solution", "Puzzle"} :
          printer' = [active |-> TRUE, it |-> PrintIter_new(pi_type),
                      out |-> <<>>, ended |-> FALSE]
    /\ UNCHANGED <<chars_, right_border, down_border, words, panic, left>>
    /\ UNCHANGED <<last, before, undone, dict, iter>>

\* One call of next() on the PrintIter.
PrintNext ==
    /\ printer.active
    /\ LET r == PrintIter_next(Grid, printer.it)
       IN printer' = IF r.item = NoItem
                     THEN [printer EXCEPT !.it = r.it, !.ended = TRUE]
                     ELSE [printer EXCEPT !.it = r.it, !.out = Append(@, r.item)]
    /\ UNCHANGED <<chars_, right_border, down_border, words, panic, left>>
    /\ UNCHANGED <<last, before, undone, dict, iter>>

\* The PrintIter is dropped once it has ended.
PrintDrop ==
    /\ printer.active
    /\ printer.ended
    /\ printer' = NoPrinter
    /\ UNCHANGED <<chars_, right_border, down_border, words, panic, left>>
    /\ UNCHANGED <<last, before, undone, dict, iter>>

NextPrint == Place \/ Remove \/ PrintStart \/ PrintNext \/ PrintDrop

SpecPrint == Init /\ [][NextPrint]_vars

\* The orders in which the shuffle can leave the words of the set S.
Shuffles(S) ==
    { ws \in [1..Cardinality(S) -> S] :
        \A j, k \in 1..Cardinality(S) : ws[j] = ws[k] => j = k }

\* Dict::new(all_words)
DictNew ==
    /\ ~dict.built
    /\ \E all_words \in SUBSET DictPool :
          \E ws \in Shuffles(all_words) : dict' = Dict_new(ws)
    /\ UNCHANGED <<chars_, right_border, down_border, words, panic, left>>
    /\ UNCHANGED <<last, before, undone, printer, iter>>

\* dict.matching_words(pattern)
MatchingWords ==
    /\ dict.built
    /\ iter.op = "none"
    /\ \E pattern \in Patterns :
          iter' = [op |-> "matching_words", it |-> matching_words(dict, pattern),
                   out |-> <<>>, ended |-> FALSE, ret |-> FALSE]
    /\ UNCHANGED <<chars_, right_border, down_border, words, panic, left>>
    /\ UNCHANGED <<last, before, undone, printer, dict>>

\* One call of next() on the PatternIter.
IterNext ==
    /\ iter.op = "matching_words"
    /\ iter.ended => iter.it.index <= Len(iter.it.list) + MaxCallsAfterNone
    /\ LET r == PatternIter_next(dict, iter.it)
       IN iter' = IF r.item.some
                  THEN [iter EXCEPT !.it = r.it, !.out = Append(@, r.item.v)]
                  ELSE [iter EXCEPT !.it = r.it, !.ended = TRUE]
    /\ UNCHANGED <<chars_, right_border, down_border, words, panic, left>>
    /\ UNCHANGED <<last, before, undone, printer, dict>>

\* dict.contains(word)
Contains ==
    /\ dict.built
    /\ iter.op = "none"
    /\ \E word \in LetterWords :
          iter' = [op |-> "contains", it |-> matching_words(dict, word),
                   out |-> <<>>, ended |-> FALSE, ret |-> contains(dict, word)]
    /\ UNCHANGED <<chars_, right_border, down_border, words, panic, left>>
    /\ UNCHANGED <<last, before, undone, printer, dict>>

\* The PatternIter is dropped, or the result of contains is consumed.
IterDrop ==
    /\ iter.op # "none"
    /\ iter.op = "matching_words" => iter.ended
    /\ iter' = NoIter
    /\ UNCHANGED <<chars_, right_border, down_border, words, panic, left>>
    /\ UNCHANGED <<last, before, undone, printer, dict>>

NextDict == DictNew \/ MatchingWords \/ IterNext \/ Contains \/ IterDrop

SpecDict == Init /\ [][NextDict]_vars

\* The consumer of a PatternIter (count(), a for loop) keeps calling next().
SpecDictLive == Init /\ [][NextDict]_vars /\ WF_vars(IterNext)

\* ----------------------------------------------------- reading the grid
\* The cells of the run of len cells from point along dir.
RunCells(point, dir, len) ==
    { padd(point, pmul(dir_point(dir), k)) : k \in 0..(len - 1) }

\* The number of cells from point along dir up to the first border.
RunLen(g, point, dir) ==
    LET cell(k) == padd(point, pmul(dir_point(dir), k))
    IN CHOOSE n \in 1..(Width + Height) :
          /\ get_border(g, cell(n - 1), dir)
          /\ \A k \in 0..(n - 2) : ~get_border(g, cell(k), dir)

\* The runs of the grid: len cells inside the grid with a border before the
\* first, a border after the last and no border between two of them.
Runs(g) ==
    { [point |-> s[1], dir |-> s[2], len |-> RunLen(g, s[1], s[2])] :
        s \in { t \in GridPoints \X Dirs :
                  get_border(g, psub(t[1], dir_point(t[2])), t[2]) } }

\* The runs of two cells or more: the places of the words.
WordRuns(g) == { r \in Runs(g) : r.len >= 2 }

\* What the cells of a run hold.
RunWord(g, r) ==
    [k \in 1..r.len |->
        g.chars[coord(padd(r.point, pmul(dir_point(r.dir), k - 1)), Width, Height)]]

\* The run of two cells or more along dir that the point lies on, if any.
RunsThrough(g, point, dir) ==
    { r \in WordRuns(g) : r.dir = dir /\ point \in RunCells(r.point, r.dir, r.len) }

IsLetter(c) == c # BLOCK /\ c # None

\* ------------------------------------------------------------------ claims

\* C1 as stated: a character vector is in words iff some run of the grid holds
\* it letter by letter between two borders, and that run is unique.
C1_AsStated ==
    LET letterRuns == { r \in Runs(Grid) :
                          \A k \in 1..r.len : IsLetter(RunWord(Grid, r)[k]) }
    IN /\ \A r \in letterRuns : RunWord(Grid, r) \in words
       /\ \A w \in words : \E r \in letterRuns : RunWord(Grid, r) = w
       /\ \A r1, r2 \in letterRuns :
             RunWord(Grid, r1) = RunWord(Grid, r2) /\ RunWord(Grid, r1) \in words
                 => r1 = r2

\* C1 amended: a character vector of two letters or more is in words iff some
\* run of the grid holds it letter by letter between two borders; that run is
\* unique; and words holds no shorter vector.
C1_WordsAreTheRuns ==
    /\ words = { RunWord(Grid, r) : r \in WordRuns(Grid) }
    /\ \A r1, r2 \in WordRuns(Grid) :
          RunWord(Grid, r1) = RunWord(Grid, r2) => r1 = r2
    /\ \A w \in words : Len(w) >= 2 /\ \A k \in 1..Len(w) : IsLetter(w[k])

\* Two words or more in the grid, two of them crossing, after a word has left.
C1_Witness ==
    /\ Cardinality(words) >= 2
    /\ left # {}
    /\ \E p \in GridPoints :
          ~both_borders(Grid, p, "Right") /\ ~both_borders(Grid, p, "Down")

\* C2: every cell that holds a letter lies on a word: it is not isolated in
\* both directions.
C2_NoOrphanLetter ==
    \A p \in GridPoints :
        IsLetter(get_char(Grid, p))
            => ~(both_borders(Grid, p, "Right") /\ both_borders(Grid, p, "Down"))

\* pop_word has removed a word and kept the letter of a cell where another
\* word crosses.
C2_Witness ==
    /\ last.op = "pop_word"
    /\ Len(last.out) >= 2
    /\ \E p \in RunCells(last.point, last.dir, Len(last.out)) :
          IsLetter(get_char(Grid, p))

\* C3: a try_word that returns false leaves chars, both border arrays and
\* words as they were.
C3_FailedTryChangesNothing ==
    (last.op = "try_word" /\ ~last.ok) => Grid = before

\* A try_word was rejected on a grid that holds words, for a word that has
\* its first cell free.
C3_Witness ==
    /\ last.op = "try_word"
    /\ ~last.ok
    /\ before.words # {}
    /\ Len(last.word) >= 2
    /\ get_char(before, last.point) = BLOCK

\* The words along dir that lie inside the run of len cells from point.
ParallelInside(g, point, dir, len) ==
    { RunWord(g, r) : r \in { q \in WordRuns(g) :
        q.dir = dir /\ RunCells(q.point, q.dir, q.len) \subseteq RunCells(point, dir, len) } }

\* C4: after a successful try_word, words is the previous words without the
\* words along dir that lay inside the run of the new word, and with the new
\* word; no other word is removed.
C4_SupersededWordsLeave ==
    (last.op = "try_word" /\ last.ok)
        => words = (before.words
                       \ ParallelInside(before, last.point, last.dir, Len(last.word)))
                   \cup {last.word}

\* A word was placed over two shorter words of its direction, and both have
\* left words.
C4_Witness ==
    /\ last.op = "try_word"
    /\ last.ok
    /\ Cardinality(ParallelInside(before, last.point, last.dir, Len(last.word))) = 2
    /\ Cardinality(before.words \ words) = 2

\* Conditions 1, 3, 4 and 5 of the placement protocol: all but "not a duplicate".
OtherConditions(g, point, dir, word) ==
    LET dp == dir_point(dir)
        cell(k) == padd(point, pmul(dp, k - 1))
    IN /\ Len(word) >= 2
       /\ get_border(g, psub(point, dp), dir)
       /\ get_border(g, cell(Len(word)), dir)
       /\ \A k \in 1..Len(word) :
             /\ cell(k) \in GridPoints
             /\ get_char(g, cell(k)) \in {BLOCK, word[k]}

\* C5: try_word of a word that is in words returns false wherever it is tried;
\* try_word of a word that is not in words (also one that was and has left)
\* returns true where the other placement conditions hold.
C5_NoDuplicateWhilePlaced ==
    last.op = "try_word"
        => /\ last.word \in before.words => ~last.ok
           /\ (last.word \notin before.words
                 /\ OtherConditions(before, last.point, last.dir, last.word))
                    => last.ok

\* A word that was in words and had left was placed again.
C5_Witness ==
    /\ last.op = "try_word"
    /\ last.ok
    /\ last.gone

\* The position (from 1) of a cell of the run from point along dir.
IndexInRun(point, dir, cell) ==
    IF dir = "Right" THEN cell[1] - point[1] + 1 ELSE cell[2] - point[2] + 1

\* C6: a successful try_word leaves every cell that held a letter as it was,
\* writes the letters of the word to the cells of its run and to no other
\* cell; a try_word whose run leaves the grid, or whose letter differs from a
\* letter already on the run, is rejected.
C6_OverlappingLettersAgree ==
    LET run == RunCells(last.point, last.dir, Len(last.word))
    IN last.op = "try_word"
        => /\ last.ok =>
                \A p \in GridPoints :
                    /\ IsLetter(get_char(before, p))
                          => get_char(Grid, p) = get_char(before, p)
                    /\ p \notin run => get_char(Grid, p) = get_char(before, p)
                    /\ p \in run
                          => get_char(Grid, p)
                                = last.word[IndexInRun(last.point, last.dir, p)]
           /\ (\E p \in run :
                  \/ p \notin GridPoints
                  \/ /\ IsLetter(get_char(before, p))
                     /\ get_char(before, p)
                           # last.word[IndexInRun(last.point, last.dir, p)])
                 => ~last.ok

\* A word was placed across a letter of another word and onto free cells.
C6_Witness ==
    LET run == RunCells(last.point, last.dir, Len(last.word))
    IN /\ last.op = "try_word"
       /\ last.ok
       /\ \E p \in run : IsLetter(get_char(before, p))
       /\ \E p \in run : get_char(before, p) = BLOCK

\* C7: when pop_word(p, dir) directly follows a successful try_word(p, dir, w)
\* whose run held no word along dir, it returns w and the grid is again the
\* grid before the try_word: chars, both border arrays and words.
C7_PlaceThenRemove ==
    (undone.some
        /\ ParallelInside(undone.g, last.point, last.dir, Len(undone.word)) = {})
        => /\ last.out = undone.word
           /\ Grid = undone.g

\* A word placed across a letter of another word was removed at once.
C7_Witness ==
    /\ undone.some
    /\ ParallelInside(undone.g, last.point, last.dir, Len(undone.word)) = {}
    /\ \E p \in RunCells(last.point, last.dir, Len(undone.word)) :
          IsLetter(get_char(undone.g, p))

\* C8 as stated: pop_word at any cell of a word along dir (first, middle or
\* last) removes the word and returns it.
C8_AsStated ==
    last.op = "pop_word"
        => \A r \in RunsThrough(before, last.point, last.dir) :
              /\ last.out = RunWord(before, r)
              /\ RunWord(before, r) \notin words

\* C8 amended: pop_word at the first cell of a word along dir removes the word
\* (it leaves words and every cell of its run is bordered on both sides along
\* dir) and returns it; at a middle or last cell of a word pop_word returns the
\* empty vector and changes nothing.
C8_PopAtFirstCell ==
    last.op = "pop_word"
        => \A r \in RunsThrough(before, last.point, last.dir) :
              IF last.point = r.point
              THEN /\ last.out = RunWord(before, r)
                   /\ RunWord(before, r) \notin words
                   /\ \A p \in RunCells(r.point, r.dir, r.len) :
                         both_borders(Grid, p, r.dir)
              ELSE /\ last.out = <<>>
                   /\ Grid = before

\* pop_word was called at the first cell of a word that another word crosses.
C8_Witness ==
    /\ last.op = "pop_word"
    /\ \E r \in RunsThrough(before, last.point, last.dir) :
          /\ last.point = r.point
          /\ \E p \in RunCells(r.point, r.dir, r.len) :
                ~both_borders(before, p, other(r.dir))

\* C9: pop_word at a cell that lies on no word along dir (an isolated letter, a
\* BLOCK cell, a point outside the grid) returns the empty vector and changes
\* nothing.
C9_PopOffWord ==
    (last.op = "pop_word" /\ both_borders(before, last.point, last.dir))
        => /\ last.out = <<>>
           /\ Grid = before

\* pop_word was called along dir at a letter of a word of the other direction.
C9_Witness ==
    /\ last.op = "pop_word"
    /\ both_borders(before, last.point, last.dir)
    /\ IsLetter(get_char(before, last.point))

\* C10 as stated: word_at at any cell of a word along dir (first, middle or
\* last) returns the whole word.
C10_AsStated ==
    last.op = "word_at"
        => \A r \in RunsThrough(before, last.point, last.dir) :
              last.out = RunWord(before, r)

\* C10 amended: word_at at the first cell of a word along dir returns the whole
\* word; at a middle or last cell of a word it returns the empty vector.
C10_WordAtFirstCell ==
    last.op = "word_at"
        => \A r \in RunsThrough(before, last.point, last.dir) :
              last.out = IF last.point = r.point THEN RunWord(before, r) ELSE <<>>

\* word_at was called at the first cell of a word of four letters.
C10_Witness ==
    /\ last.op = "word_at"
    /\ \E r \in RunsThrough(before, last.point, last.dir) :
          /\ r.len = 4
          /\ last.point = r.point

\* The sum of |w| - 1 over the words of a set.
RECURSIVE InnerBorders(_)
InnerBorders(ws) ==
    IF ws = {} THEN 0
    ELSE LET w == CHOOSE v \in ws : TRUE
         IN (Len(w) - 1) + InnerBorders(ws \ {w})

\* C11: border_count plus the sum of |w| - 1 over the words is
\* max_border_count = 2WH - W - H; the empty grid has border_count =
\* max_border_count.
C11_BorderBalance ==
    /\ count_borders(Grid) + InnerBorders(words) = max_border_count
    /\ max_border_count = 2 * Width * Height - Width - Height
    /\ words = {} => count_borders(Grid) = max_border_count

\* Every word of the inputs that can be placed is in the grid.
C11_Witness ==
    /\ Cardinality(words) = 3
    /\ count_borders(Grid) < max_border_count

\* C12 as stated: a successful try_word of a word of length L lowers
\* border_count by L - 1, and a pop_word that returns a word of length L raises
\* it by L - 1.
C12_AsStated ==
    /\ (last.op = "try_word" /\ last.ok)
          => count_borders(before) - count_borders(Grid) = Len(last.word) - 1
    /\ (last.op = "pop_word" /\ Len(last.out) >= 1)
          => count_borders(Grid) - count_borders(before) = Len(last.out) - 1

\* C12 amended: a successful try_word of a word of length L lowers border_count
\* by L - 1 less the sum of |v| - 1 over the words v along its direction that
\* it supersedes (so by L - 1 when it supersedes none), and a pop_word that
\* returns a word of length L raises it by L - 1.
C12_BorderDelta ==
    /\ (last.op = "try_word" /\ last.ok)
          => count_borders(before) - count_borders(Grid)
                = (Len(last.word) - 1)
                    - InnerBorders(ParallelInside(before, last.point, last.dir,
                                                  Len(last.word)))
    /\ (last.op = "pop_word" /\ Len(last.out) >= 1)
          => count_borders(Grid) - count_borders(before) = Len(last.out) - 1

\* A word of four letters was placed over a word of two letters.
C12_Witness ==
    /\ last.op = "try_word"
    /\ last.ok
    /\ Len(last.word) = 4
    /\ ParallelInside(before, last.point, last.dir, Len(last.word)) # {}

\* The array a border along dir lives in has an entry for the point.
InBorderArray(point, dir) ==
    IF dir = "Right" THEN coord(point, Width - 1, Height) # NoCoord
    ELSE coord(point, Width, Height - 1) # NoCoord

\* C13: no call aborts, whatever the point, the direction and the word; when
\* try_word accepts a word, every cell it writes is inside the grid and every
\* border it clears is inside the border array.
C13_NoAbort ==
    /\ ~panic
    /\ (last.op = "try_word" /\ last.ok)
          => LET pts == PointIter(last.point, last.dir, Len(last.word))
             IN /\ \A k \in 1..Len(last.word) : pts[k] \in GridPoints
                /\ \A k \in 1..(Len(last.word) - 1) : InBorderArray(pts[k], last.dir)
    /\ (last.op = "try_word" /\ (Len(last.word) < 2 \/ last.point \notin GridPoints))
          => ~last.ok /\ Grid = before

\* A word was placed with its last cell on the far edge of the grid.
C13_Witness ==
    /\ last.op = "try_word"
    /\ last.ok
    /\ ~panic
    /\ padd(last.point, pmul(dir_point(last.dir), Len(last.word)))
          \notin GridPoints

\* C14: is_empty() is true iff every cell holds BLOCK and every border is
\* true: iff the grid is the grid that new(W, H) makes.
C14_EmptyIsFresh ==
    is_empty(Grid)
        <=> /\ \A i \in DOMAIN chars_ : chars_[i] = BLOCK
            /\ \A i \in DOMAIN right_border : right_border[i]
            /\ \A i \in DOMAIN down_border : down_border[i]

\* The grid is empty again after words were placed and have left.
C14_Witness ==
    /\ is_empty(Grid)
    /\ Cardinality(left) >= 2

\* C19: when pop_word returns a word, every border along dir on its run is
\* true; each cell of the run holds BLOCK unless a word of the other direction
\* goes through it, and then its letter and that word are kept; words has lost
\* the word returned and nothing else; the cells off the run and the borders
\* of the other direction are as they were.
C19_PopEffect ==
    (last.op = "pop_word" /\ Len(last.out) >= 1)
        => LET dir == last.dir
               run == RunCells(last.point, dir, Len(last.out))
           IN /\ \A p \in run : both_borders(Grid, p, dir)
              /\ \A p \in run :
                    IF both_borders(before, p, other(dir))
                    THEN get_char(Grid, p) = BLOCK
                    ELSE /\ get_char(Grid, p) = get_char(before, p)
                         /\ \A r \in RunsThrough(before, p, other(dir)) :
                               RunWord(before, r) \in words
              /\ words = before.words \ {last.out}
              /\ last.out \in before.words
              /\ \A p \in GridPoints \ run : get_char(Grid, p) = get_char(before, p)
              /\ IF dir = "Right" THEN down_border = before.down_border
                 ELSE right_border = before.right_border

\* pop_word returned a word that had a free cell and a cell crossed by a word.
C19_Witness ==
    /\ last.op = "pop_word"
    /\ Len(last.out) >= 1
    /\ \E p \in RunCells(last.point, last.dir, Len(last.out)) :
          get_char(Grid, p) = BLOCK
    /\ \E p \in RunCells(last.point, last.dir, Len(last.out)) :
          IsLetter(get_char(Grid, p))

\* The number of items of the whole stream of a grid.
StreamLen == (2 * Width + 2) * (2 * Height + 1)

\* The visual row and the column of the i-th item of the stream, from 0.
StreamRow(i) == (i - 1) \div (2 * Width + 2)

StreamCol(i) == (i - 1) % (2 * Width + 2)

\* The grid cell of the item at an odd row and an odd column.
StreamCell(i) == <<(StreamCol(i) - 1) \div 2, (StreamRow(i) - 1) \div 2>>

\* The i-th item of the stream is the item of a cell.
IsCellItem(i) ==
    StreamCol(i) < 2 * Width + 1 /\ StreamRow(i) % 2 = 1 /\ StreamCol(i) % 2 = 1

\* C17: the stream of a PrintIter never grows beyond (2W+2)(2H+1) items; the
\* items yielded so far are 2W+1 items and one LineBreak per visual row,
\* border rows (Cross, HorizBorder, ..., Cross) alternating with cell rows
\* (VertBorder, cell, ..., VertBorder), the cell items being those of the
\* cells in row-major order; next() returns None exactly once 2H+1 rows have
\* been yielded, and keeps returning None.
C17_StreamShape ==
    printer.active =>
        /\ Len(printer.out) <= StreamLen
        /\ \A i \in 1..Len(printer.out) :
              LET item == printer.out[i]
                  r == StreamRow(i)
                  c == StreamCol(i)
              IN IF c = 2 * Width + 1 THEN item = LineBreak
                 ELSE IF r % 2 = 0
                 THEN item.kind = (IF c % 2 = 0 THEN "Cross" ELSE "HorizBorder")
                 ELSE IF c % 2 = 0 THEN item.kind = "VertBorder"
                 ELSE LET ch == get_char(Grid, StreamCell(i))
                      IN /\ item.kind \in {"Block", "Character", "Hint"}
                         /\ item = Block <=> ch = BLOCK
                         /\ printer.it.pi_type = "Solution" /\ ch # BLOCK
                               => item = Character(ch)
        /\ printer.ended => Len(printer.out) = StreamLen
        /\ PrintIter_next(Grid, printer.it).item = NoItem
              <=> Len(printer.out) = StreamLen

\* A solution stream has ended over a grid that holds a word and a BLOCK.
C17_Witness ==
    /\ printer.active
    /\ printer.ended
    /\ printer.it.pi_type = "Solution"
    /\ words # {}
    /\ \E i, j \in 1..Len(printer.out) :
          printer.out[i] = Block /\ printer.out[j].kind = "Character"

\* The cells that hold a letter and are the first cell of a run of two cells
\* or more.
HintOrigins(g) ==
    { r.point : r \in WordRuns(g) } \cap { p \in GridPoints : IsLetter(get_char(g, p)) }

\* q comes before p in row-major order.
RowMajorBefore(q, p) == q[2] < p[2] \/ (q[2] = p[2] /\ q[1] < p[1])

\* C18: in puzzle mode the item of a BLOCK cell is Block, the item of a letter
\* cell that is the first cell of a word in some direction is Hint(n), n being
\* one more than the number of such cells before it in row-major order, and
\* the item of every other letter cell is Character(' ').
C18_PuzzleHints ==
    printer.active /\ printer.it.pi_type = "Puzzle" =>
        LET origins == HintOrigins(Grid)
        IN \A i \in 1..Len(printer.out) :
              IsCellItem(i) =>
                  LET p == StreamCell(i)
                      n == Cardinality({ q \in origins : RowMajorBefore(q, p) }) + 1
                  IN printer.out[i] =
                        IF get_char(Grid, p) = BLOCK THEN Block
                        ELSE IF p \in origins THEN Hint(n)
                        ELSE Character(" ")

\* A puzzle stream has ended with two hints or more, a letter cell without a
\* hint and a BLOCK cell; one of the hinted cells starts a word down only.
C18_Witness ==
    /\ printer.active
    /\ printer.ended
    /\ printer.it.pi_type = "Puzzle"
    /\ \E i, j, k \in 1..Len(printer.out) :
          /\ printer.out[i] = Hint(2)
          /\ printer.out[j] = Character(" ")
          /\ printer.out[k] = Block
    /\ \E p \in GridPoints :
          /\ has_hint_at_dir(Grid, p, "Down")
          /\ ~has_hint_at_dir(Grid, p, "Right")

\* The words of the Dict.
DictWords(d) == { d.words[k] : k \in 1..Len(d.words) }

\* The words of the Dict that a pattern describes: of its length, with its
\* letter wherever it has one.
Matching(d, pattern) ==
    { w \in DictWords(d) :
        /\ Len(w) = Len(pattern)
        /\ \A k \in 1..Len(pattern) : pattern[k] # BLOCK => w[k] = pattern[k] }

\* C15: the words that matching_words(pattern) has yielded are words of the
\* Dict that the pattern describes, none of them twice, and once next() has
\* returned None they are all such words, whatever list was selected.
C15_MatchingWordsExact ==
    iter.op = "matching_words" =>
        /\ \A k \in 1..Len(iter.out) : iter.out[k] \in Matching(dict, iter.it.pattern)
        /\ \A j, k \in 1..Len(iter.out) : iter.out[j] = iter.out[k] => j = k
        /\ iter.ended =>
              { iter.out[k] : k \in 1..Len(iter.out) } = Matching(dict, iter.it.pattern)

\* An iteration has ended that ran over the list of an n-gram, shorter than
\* the list of the length, yielded a word and filtered another out.
C15_Witness ==
    /\ iter.op = "matching_words"
    /\ iter.ended
    /\ Len(iter.it.list) < Len(get_list(dict, Length(Len(iter.it.pattern))))
    /\ Len(iter.out) >= 1
    /\ Len(iter.out) < Len(iter.it.list)

\* C16: contains(w) of a letter-only word w is true iff w is one of the words
\* the Dict was built from.
C16_ContainsInput ==
    iter.op = "contains" => (iter.ret <=> iter.it.pattern \in DictWords(dict))

\* contains has answered true for a word of six letters of a Dict of three
\* words or more.
C16_Witness ==
    /\ iter.op = "contains"
    /\ iter.ret
    /\ Len(iter.it.pattern) = 6
    /\ Len(dict.words) >= 3

\* The boundary points of the grid.
BoundaryPoints(g) == { p \in GridPoints : is_boundary_point(g, p) }

\* The boundary around the cluster of each boundary point.
Boundaries(g) == [p \in BoundaryPoints(g) |-> get_boundary_iter_for(g, p)]

\* The boundary points whose cluster has a boundary of the smallest size.
SmallestPoints(bs) ==
    { p \in DOMAIN bs :
        \A q \in DOMAIN bs : Cardinality(bs[p]) <= Cardinality(bs[q]) }

\* C20 as stated: the boundary returned is that of the cluster, among those of
\* the smallest boundary size, that holds the first boundary point in
\* row-major order (increasing y, then x).
C20_AsStated ==
    last.op = "get_smallest_boundary" =>
        LET bs == Boundaries(Grid)
            sp == SmallestPoints(bs)
        IN \A p \in sp :
              (\A q \in sp : q = p \/ RowMajorBefore(p, q)) => last.out = bs[p]

\* q comes before p in the order of increasing x, then y.
ColumnMajorBefore(q, p) == q[1] < p[1] \/ (q[1] = p[1] /\ q[2] < p[2])

\* C20: the boundary returned is empty if the grid has no boundary point;
\* else it is that of the cluster, among those of the smallest boundary size,
\* that holds the first boundary point in the order of increasing x, then y.
\* No boundary has fewer than two pairs, so the early return is never taken.
C20_ColumnMajorTies ==
    last.op = "get_smallest_boundary" =>
        LET bs == Boundaries(Grid)
            sp == SmallestPoints(bs)
        IN /\ DOMAIN bs = {} => last.out = {}
           /\ \A p \in DOMAIN bs : Cardinality(bs[p]) > 1
           /\ \A p \in sp :
                 (\A q \in sp : q = p \/ ColumnMajorBefore(p, q)) => last.out = bs[p]

\* Two clusters tie for the smallest boundary, the first boundary point by
\* rows and the first by columns lie in different ones, and the boundary of
\* the latter has been returned.
C20_Witness ==
    /\ last.op = "get_smallest_boundary"
    /\ LET bs == Boundaries(Grid)
           sp == SmallestPoints(bs)
       IN \E p, q \in sp :
            /\ bs[p] # bs[q]
            /\ \A r \in sp : r = p \/ RowMajorBefore(p, r)
            /\ \A r \in sp : r = q \/ ColumnMajorBefore(q, r)
            /\ last.out = bs[q]

\* The point is the first cell of a word along dir.
WordStartsAt(g, point, dir) ==
    \E r \in WordRuns(g) : r.dir = dir /\ r.point = point

\* The point is the last cell of a word along dir.
WordEndsAt(g, point, dir) ==
    \E r \in WordRuns(g) :
        r.dir = dir /\ padd(r.point, pmul(dir_point(dir), r.len - 1)) = point

\* C21: a range of one cell or more returned by get_free_range_at(p, dir)
\* starts at p, lies inside the grid, has no cell on a word along dir and a
\* border before its first cell; the cell before it is outside the grid or
\* the last cell of a word along dir, and the cell after it is outside the
\* grid or the first cell of a word along dir.
C21_FreeRangeMaximal ==
    last.op = "get_free_range_at" /\ last.out.len >= 1 =>
        LET r  == last.out
            dp == dir_point(r.dir)
            pre  == psub(r.point, dp)
            post == padd(r.point, pmul(dp, r.len))
        IN /\ r.point = last.point /\ r.dir = last.dir
           /\ RunCells(r.point, r.dir, r.len) \subseteq GridPoints
           /\ \A c \in RunCells(r.point, r.dir, r.len) :
                 RunsThrough(Grid, c, r.dir) = {}
           /\ get_border(Grid, pre, r.dir)
           /\ pre \notin GridPoints \/ WordEndsAt(Grid, pre, r.dir)
           /\ post \notin GridPoints \/ WordStartsAt(Grid, post, r.dir)

\* A free range has been returned that starts right after a word along its
\* direction and crosses a letter of a word along the other direction.
C21_Witness ==
    /\ last.op = "get_free_range_at"
    /\ last.out.len >= 1
    /\ WordEndsAt(Grid, psub(last.point, dir_point(last.dir)), last.dir)
    /\ \E c \in RunCells(last.point, last.dir, last.out.len) :
          IsLetter(get_char(Grid, c))

\* The maximal runs of letters of a pattern: <<a, b>> for the run of the
\* positions a..(b - 1), counted from 0.
PatternRuns(pattern) ==
    { ab \in (0..Len(pattern)) \X (0..Len(pattern)) :
        /\ ab[1] < ab[2]
        /\ \A k \in (ab[1] + 1)..ab[2] : pattern[k] # BLOCK
        /\ ab[1] = 0 \/ pattern[ab[1]] = BLOCK
        /\ ab[2] = Len(pattern) \/ pattern[ab[2] + 1] = BLOCK }

\* C22: no list of the length of the pattern or of an n-gram that the pattern
\* fixes at some offset inside a run of letters is shorter than the list that
\* matching_words scans.
C22_ShortestList ==
    iter.op = "matching_words" =>
        \A ab \in PatternRuns(iter.it.pattern) :
            LET n == Min(max_n, ab[2] - ab[1])
            IN \A dp \in 0..(ab[2] - ab[1] - n) :
                  Len(iter.it.list) <=
                      Len(get_list(dict, with_ngram(
                              SubSeq(iter.it.pattern, ab[1] + dp + 1, ab[1] + dp + n),
                              ab[1] + dp, Len(iter.it.pattern))))

\* The word agrees with every letter that the grid holds on the range.
FitsLetters(g, range, word) ==
    \A k \in 1..range.len :
        LET c == get_char(g, PointIter(range.point, range.dir, range.len)[k])
        IN c # BLOCK => word[k] = c

\* C23: try_word of a word of two letters or more that is not in words, on a
\* range for which is_range_free holds and whose letters the word agrees
\* with, returns true; and is_range_free holds for every part of two cells or
\* more of a range returned by get_free_range_at.
C23_FreeRangePlaceable ==
    /\ last.op = "try_word"
          /\ Len(last.word) >= 2
          /\ is_range_free(before, [point |-> last.point, dir |-> last.dir,
                                    len |-> Len(last.word)])
          /\ last.word \notin before.words
          /\ FitsLetters(before, [point |-> last.point, dir |-> last.dir,
                                  len |-> Len(last.word)], last.word)
        => last.ok
    /\ last.op = "get_free_range_at" =>
          \A k \in 0..last.out.len, len \in 2..last.out.len :
              k + len <= last.out.len =>
                  is_range_free(Grid,
                      [point |-> padd(last.point, pmul(dir_point(last.dir), k)),
                       dir |-> last.dir, len |-> len])

\* A word has been placed on a free range that held a letter of a crossing
\* word and a BLOCK.
C23_Witness ==
    /\ last.op = "try_word"
    /\ last.ok
    /\ is_range_free(before, [point |-> last.point, dir |-> last.dir,
                              len |-> Len(last.word)])
    /\ \E k, j \in 1..Len(last.word) :
          /\ IsLetter(get_char(before, PointIter(last.point, last.dir, Len(last.word))[k]))
          /\ get_char(before, PointIter(last.point, last.dir, Len(last.word))[j]) = BLOCK

\* The position of a word in the shuffled words of the Dict.
WordIndex(d, word) == CHOOSE k \in 1..Len(d.words) : d.words[k] = word

\* C24: every list of the Dict is strictly increasing; the words that
\* matching_words has yielded come in increasing order of their position in
\* words; asking the same pattern again yields the same sequence, and a query
\* with any other pattern yields two words of this one in the same order.
C24_StableOrder ==
    /\ \A wc \in DOMAIN dict.lists :
          \A j, k \in 1..Len(dict.lists[wc]) :
              j < k => dict.lists[wc][j] < dict.lists[wc][k]
    /\ iter.op = "matching_words" =>
          \A j, k \in 1..Len(iter.out) :
              j < k => WordIndex(dict, iter.out[j]) < WordIndex(dict, iter.out[k])
    /\ iter.op = "matching_words" /\ iter.ended =>
          collect(dict, matching_words(dict, iter.it.pattern)) = iter.out
    /\ iter.op = "matching_words" /\ iter.ended /\ Len(iter.out) >= 2 =>
          \A q \in { pq \in Patterns : Len(pq) = Len(iter.it.pattern) } :
              LET o == collect(dict, matching_words(dict, q))
              IN \A j, k \in 1..Len(iter.out), a, b \in 1..Len(o) :
                    j < k /\ o[a] = iter.out[j] /\ o[b] = iter.out[k] => a < b

\* A query over the list of an n-gram has yielded two words that a query with
\* another pattern, over a longer list, yields too.
C24_Witness ==
    /\ iter.op = "matching_words"
    /\ iter.ended
    /\ Len(iter.out) >= 2
    /\ Len(iter.it.list) < Len(get_list(dict, Length(Len(iter.it.pattern))))
    /\ \E q \in Patterns :
          /\ Len(q) = Len(iter.it.pattern)
          /\ Len(matching_words(dict, q).list) > Len(iter.it.list)
          /\ \A k \in 1..Len(iter.out) :
                \E a \in 1..Len(collect(dict, matching_words(dict, q))) :
                    collect(dict, matching_words(dict, q))[a] = iter.out[k]

\* C25: every call of next() moves the index forward by one or more; a call
\* returns None only once the index has reached the end of the list, so that
\* None comes after at most Len(list) + 1 steps of the index; after the first
\* None every call returns None and yields nothing more; every iteration that
\* is carried on reaches None.
C25_IterationEnds ==
    /\ [](iter.op = "matching_words" =>
            /\ ~iter.ended => iter.it.index <= Len(iter.it.list)
            /\ iter.ended => iter.it.index > Len(iter.it.list)
            /\ iter.ended => ~PatternIter_next(dict, iter.it).item.some)
    /\ [][iter.op = "matching_words" /\ iter'.op = "matching_words" /\ iter' # iter =>
            /\ iter'.it.index > iter.it.index
            /\ iter.ended => iter'.ended /\ iter'.out = iter.out]_vars
    /\ (iter.op = "matching_words") ~> (iter.op = "matching_words" /\ iter.ended)

\* next() has returned None to a call made after the first None, for a
\* pattern of a length no word of the Dict has.
C25_Witness ==
    /\ iter.op = "matching_words"
    /\ iter.ended
    /\ iter.it.index > Len(iter.it.list) + 1
    /\ dict.words # <<>>
    /\ get_list(dict, Length(Len(iter.it.pattern))) = <<>>

====
